---- MODULE Spec2Model ----
(***************************************************************************)
(* Model of src/cdk/lambda/test-parameters.py: the decision function of    *)
(* the performance-test sweep (increment_index_and_update_parameters) and  *)
(* the algorithms it calls: evaluate_skip_condition, increment_test_index, *)
(* skip_remaining_throughput and update_parameters.                        *)
(*                                                                         *)
(* The orchestrator owns the payload.  `event` is the payload handed to    *)
(* the most recent call, `result` is what that call returned (a payload or *)
(* a raised error).  The next call receives the returned payload, to which *)
(* the test-execution layer may have added a producer_result.              *)
(***************************************************************************)
EXTENDS Integers, Sequences, FiniteSets, TLC

VARIABLES
    event,      \* input payload of the most recent call
    result,     \* what the most recent call returned or raised
    route,      \* branch the most recent call took
    recording,  \* which of the sweep records below are kept
    visited,    \* index tuples returned in this sweep
    returned,   \* number of payloads returned in this sweep
    series_log  \* test points (index, series id) returned in this sweep

vars == <<event, result, route, recording, visited, returned, series_log>>

----------------------------------------------------------------------------
(* Bounds of the model *)

\* identifiers are drawn from 0..MaxId (the code draws from 0..100000)
MaxId == 1
\* the throughput axis has up to MaxOptions + 1 candidates, consumer_groups and
\* num_producers up to MaxOptions
MaxOptions == 2

\* longest identifier text given to the name builder
MaxText == 2

----------------------------------------------------------------------------
(* Axis names *)

THROUGHPUT == "cluster_throughput_mb_per_sec"
CONSUMER_GROUPS == "consumer_groups"
NUM_PRODUCERS == "num_producers"
CLIENT_PROPS == "client_props"
NUM_PARTITIONS == "num_partitions"
RECORD_SIZE == "record_size_byte"
REPLICATION == "replication_factor"
DURATION == "duration_sec"

METRIC == "sent_div_requested_mb_per_sec"

\* random.randint(0, 100000), cut to the model's bound
randint == 0..MaxId

----------------------------------------------------------------------------
(* Python values.  A floating value is the exact rational n/d with d > 0.   *)
(* A value that may be missing from a mapping carries kind "absent".        *)

Absent == [kind |-> "absent"]
Num(v) == [kind |-> "num", val |-> v]
Str(s) == [kind |-> "str", val |-> s]

Rat(n, d) == [n |-> n, d |-> d]
RatLess(a, b) == a.n * b.d < b.n * a.d
RatAdd(a, b) == Rat(a.n * b.d + b.n * a.d, a.d * b.d)

\* what a call gives back: a value, or the exception it raised
Return(v) == [raised |-> "none", value |-> v]
Raise(e) == [raised |-> e]

DigitVal(c) ==
    CASE c = "0" -> 0 [] c = "1" -> 1 [] c = "2" -> 2 [] c = "3" -> 3
      [] c = "4" -> 4 [] c = "5" -> 5 [] c = "6" -> 6 [] c = "7" -> 7
      [] c = "8" -> 8 [] c = "9" -> 9

RECURSIVE ParseNat(_)
ParseNat(s) ==
    IF s = <<>> THEN 0
    ELSE ParseNat(SubSeq(s, 1, Len(s) - 1)) * 10 + DigitVal(s[Len(s)])

RECURSIVE Pow10(_)
Pow10(k) == IF k = 0 THEN 1 ELSE 10 * Pow10(k - 1)

\* float(s) of a decimal numeral s, given as its sequence of characters
float_str(s) ==
    LET dots == {i \in 1..Len(s) : s[i] = "."}
    IN  IF dots = {} THEN Rat(ParseNat(s), 1)
        ELSE LET p == CHOOSE i \in dots : TRUE
             IN  Rat(ParseNat(SubSeq(s, 1, p - 1) \o SubSeq(s, p + 1, Len(s))),
                     Pow10(Len(s) - p))

\* float(mb_value) if mb_value else 0, mb_value = test_summary.get("mb_per_sec", 0)
mb_float(mb_value) ==
    CASE mb_value.kind = "absent" -> Rat(0, 1)
      [] mb_value.kind = "num" -> Rat(mb_value.val, 1)
      [] mb_value.kind = "str" ->
            IF mb_value.val = <<>> THEN Rat(0, 1) ELSE float_str(mb_value.val)

\* faulty variant of total_of_list: the loop overwrites the total instead of
\* adding to it (C10 depends on the sum)
total_of_list_overwrites(items) ==
    IF items = <<>> THEN Rat(0, 1)
    ELSE mb_float(items[Len(items)].test_summary.mb_per_sec)

\* the loop over a list of producer results
RECURSIVE total_of_list(_)
total_of_list(items) ==
    IF items = <<>> THEN Rat(0, 1)
    ELSE RatAdd(total_of_list(SubSeq(items, 1, Len(items) - 1)),
                mb_float(items[Len(items)].test_summary.mb_per_sec))

total_mb_per_sec(producer_result) ==
    CASE producer_result.kind = "list" -> total_of_list(producer_result.items)
      [] producer_result.kind = "dict" ->
            mb_float(producer_result.test_summary.mb_per_sec)
      [] producer_result.kind = "absent" -> Rat(0, 1)

\* faulty variant of requested_throughput: a requested throughput of 0 is
\* not replaced by 1 (C14 depends on the replacement)
requested_throughput_unguarded(ev) ==
    IF ev.current_test.present
    THEN ev.current_test.parameters.cluster_throughput_mb_per_sec
    ELSE 1

\* float(event.get("current_test", {}).get("parameters", {})
\*            .get("cluster_throughput_mb_per_sec", 1)), forced to 1 when 0
requested_throughput(ev) ==
    LET r == IF ev.current_test.present
             THEN ev.current_test.parameters.cluster_throughput_mb_per_sec
             ELSE 1
    IN  IF r = 0 THEN 1 ELSE r

\* total achieved over requested; a zero denominator stands for the division
\* at line 160 raising ZeroDivisionError
sent_div_requested_mb_per_sec(ev) ==
    LET total == total_mb_per_sec(ev.producer_result)
    IN  IF total.n = 0 THEN Rat(0, 1)
        ELSE Rat(total.n, total.d * requested_throughput(ev))

Bool(b) == IF b THEN Rat(1, 1) ELSE Rat(0, 1)

RECURSIVE evaluate_skip_condition(_, _)
evaluate_skip_condition(condition, ev) ==
    CASE condition.kind = "dict" ->
            IF condition.key \in {"greater-than", "less-than"}
            THEN LET a == evaluate_skip_condition(condition.args[1], ev)
                     b == evaluate_skip_condition(condition.args[2], ev)
                 IN  IF a.raised # "none" THEN a
                     ELSE IF b.raised # "none" THEN b
                     ELSE IF condition.key = "greater-than"
                          THEN Return(Bool(RatLess(b.value, a.value)))
                          ELSE Return(Bool(RatLess(a.value, b.value)))
            ELSE Raise("ValueError")
      [] condition.kind = "str" ->
            IF condition.val = METRIC
            THEN LET ratio == sent_div_requested_mb_per_sec(ev)
                 IN  IF ratio.d = 0 THEN Raise("ZeroDivisionError")
                     ELSE Return(ratio)
            ELSE Raise("ValueError")
      [] condition.kind = "num" -> Return(Rat(condition.val, 1))
      [] OTHER -> Raise("ValueError")

\* truth value of a number in an if
Truthy(v) == v.n # 0

----------------------------------------------------------------------------
(* Index Counter and Skip-Ahead Rule.  An identifier draw is a choice over  *)
(* randint, so each function yields the SET of outcomes it can produce: a   *)
(* pair (index, series id) or the raised OverflowError.                     *)

Pair(index, series_id) == [raised |-> "none", index |-> index, series_id |-> series_id]
Overflow == [raised |-> "OverflowError"]

\* parameters = [key for key in event["test_specification"]["parameters"].keys()]
parameter_keys(ev) == ev.test_specification.parameter_keys

RECURSIVE increment_test_index(_, _, _)

\* faulty variant of increment_digit: a new series id is drawn on every
\* axis, the throughput axis included (C3 depends on the id being kept)
increment_digit_always_draws(index, ev, parameter_name, parameter_value) ==
    {Pair([index EXCEPT ![parameter_name] = parameter_value + 1], new_series_id) :
        new_series_id \in randint}

\* the digit can be incremented (no carry): the throughput axis keeps the
\* series id of the event, any other axis draws a new one
increment_digit(index, ev, parameter_name, parameter_value) ==
    IF parameter_name = THROUGHPUT
    THEN {Pair([index EXCEPT ![parameter_name] = parameter_value + 1],
               ev.current_test.parameters.throughput_series_id)}
    ELSE {Pair([index EXCEPT ![parameter_name] = parameter_value + 1],
               new_series_id) : new_series_id \in randint}

\* faulty variant of carry_digit: the saturated digit is not reset to 0
\* (C1 depends on the reset)
carry_digit_no_reset(index, ev, pos, parameter_name) ==
    LET up == increment_test_index(index, ev, pos + 1)
    IN  IF parameter_name = THROUGHPUT
        THEN UNION {IF r.raised # "none" THEN {r}
                    ELSE {Pair(r.index, new_series_id) : new_series_id \in randint} :
                       r \in up}
        ELSE up

\* faulty variant of carry_digit: the saturated digit is reset but the next
\* axis is not advanced (C6 depends on the carry)
carry_digit_no_carry(index, ev, pos, parameter_name) ==
    {Pair([index EXCEPT ![parameter_name] = 0], new_series_id) :
        new_series_id \in randint}

\* the digit is at its last candidate: reset it and advance the next axis;
\* leaving the throughput axis draws a new series id after the recursive call
carry_digit(index, ev, pos, parameter_name) ==
    LET up == increment_test_index([index EXCEPT ![parameter_name] = 0], ev, pos + 1)
    IN  IF parameter_name = THROUGHPUT
        THEN UNION {IF r.raised # "none" THEN {r}
                    ELSE {Pair(r.index, new_series_id) : new_series_id \in randint} :
                       r \in up}
        ELSE up

increment_test_index(index, ev, pos) ==
    LET parameters == parameter_keys(ev)
    IN  IF ~(0 <= pos /\ pos < Len(parameters)) THEN {Overflow}
        ELSE
        LET parameter_name == parameters[pos + 1]
            parameter_value == ev.current_test.index[parameter_name]
            parameter_options == ev.test_specification.parameters[parameter_name]
        IN  IF parameter_value + 1 < Len(parameter_options)
            THEN increment_digit(index, ev, parameter_name, parameter_value)
            ELSE carry_digit(index, ev, pos, parameter_name)

\* faulty variant of skip_remaining_throughput: the new index is built from
\* scratch, so the axes other than consumer_groups restart at 0 (C11 depends
\* on the copy of the index)
skip_remaining_throughput_from_scratch(index, ev) ==
    IF index[CONSUMER_GROUPS] + 1 < Len(ev.test_specification.parameters[CONSUMER_GROUPS])
    THEN {Pair([key \in DOMAIN index |->
                   IF key = CONSUMER_GROUPS THEN index[CONSUMER_GROUPS] + 1 ELSE 0],
               new_series_id) : new_series_id \in randint}
    ELSE {Overflow}

\* faulty variant of skip_remaining_throughput: when no consumer-group
\* candidate is left the rule falls back to the ordinary counter (C12 depends
\* on the OverflowError)
skip_remaining_throughput_falls_back(index, ev) ==
    IF index[CONSUMER_GROUPS] + 1 < Len(ev.test_specification.parameters[CONSUMER_GROUPS])
    THEN {Pair([index EXCEPT ![THROUGHPUT] = 0,
                             ![CONSUMER_GROUPS] = index[CONSUMER_GROUPS] + 1],
               new_series_id) : new_series_id \in randint}
    ELSE increment_test_index(index, ev, 0)

\* faulty variant of skip_remaining_throughput: the number of consumer-group
\* candidates is not checked (C7 depends on the check)
skip_remaining_throughput_unchecked(index, ev) ==
    {Pair([index EXCEPT ![THROUGHPUT] = 0,
                        ![CONSUMER_GROUPS] = index[CONSUMER_GROUPS] + 1],
          new_series_id) : new_series_id \in randint}

\* faulty variant of skip_remaining_throughput: the throughput axis restarts
\* but consumer_groups is not advanced (C26 depends on the increment)
skip_remaining_throughput_same_groups(index, ev) ==
    IF index[CONSUMER_GROUPS] + 1 < Len(ev.test_specification.parameters[CONSUMER_GROUPS])
    THEN {Pair([index EXCEPT ![THROUGHPUT] = 0], new_series_id) :
             new_series_id \in randint}
    ELSE {Overflow}

\* faulty variant of skip_remaining_throughput: consumer_groups is advanced
\* but the throughput axis is left where it was (C29 depends on the reset)
skip_remaining_throughput_keeps_throughput(index, ev) ==
    IF index[CONSUMER_GROUPS] + 1 < Len(ev.test_specification.parameters[CONSUMER_GROUPS])
    THEN {Pair([index EXCEPT ![CONSUMER_GROUPS] = index[CONSUMER_GROUPS] + 1],
               new_series_id) : new_series_id \in randint}
    ELSE {Overflow}

skip_remaining_throughput(index, ev) ==
    LET current_consumer_groups_index == index[CONSUMER_GROUPS]
        consumer_groups_options == ev.test_specification.parameters[CONSUMER_GROUPS]
    IN  IF current_consumer_groups_index + 1 < Len(consumer_groups_options)
        THEN {Pair([index EXCEPT ![THROUGHPUT] = 0,
                                 ![CONSUMER_GROUPS] = current_consumer_groups_index + 1],
                   new_series_id) : new_series_id \in randint}
        ELSE {Overflow}

----------------------------------------------------------------------------
(* Parameter Resolver.  Text is a sequence of one-character strings.        *)

MaxInt32 == 2147483647
MiB == 1024 * 1024

DigitChar(d) ==
    CASE d = 0 -> "0" [] d = 1 -> "1" [] d = 2 -> "2" [] d = 3 -> "3"
      [] d = 4 -> "4" [] d = 5 -> "5" [] d = 6 -> "6" [] d = 7 -> "7"
      [] d = 8 -> "8" [] d = 9 -> "9"

RECURSIVE Digits(_)
Digits(n) == IF n < 10 THEN <<DigitChar(n)>>
             ELSE Digits(n \div 10) \o <<DigitChar(n % 10)>>

\* str(v) of an integer, as an f-string formats it
format(v) == IF v < 0 THEN <<"-">> \o Digits(-v) ELSE Digits(v)

RECURSIVE join(_, _)
join(sep, parts) ==
    IF Len(parts) = 0 THEN <<>>
    ELSE IF Len(parts) = 1 THEN parts[1]
    ELSE parts[1] \o sep \o join(sep, Tail(parts))

NameChars ==
    {"a", "b", "c", "d", "e", "f", "g", "h", "i", "j", "k", "l", "m",
     "n", "o", "p", "q", "r", "s", "t", "u", "v", "w", "x", "y", "z",
     "A", "B", "C", "D", "E", "F", "G", "H", "I", "J", "K", "L", "M",
     "N", "O", "P", "Q", "R", "S", "T", "U", "V", "W", "X", "Y", "Z",
     "0", "1", "2", "3", "4", "5", "6", "7", "8", "9", ".", "_", "-"}

\* faulty variant of sanitize: a character outside the class is deleted
\* instead of replaced (C19 depends on the replacement by '-')
sanitize_deletes(name) == SelectSeq(name, LAMBDA c : c \in NameChars)

\* re.sub(r'[^a-zA-Z0-9._-]', '-', name)
sanitize(name) == [i \in 1..Len(name) |-> IF name[i] \in NameChars THEN name[i] ELSE "-"]

\* f'test-{test_id}-series-{throughput_series_id}-' on the texts of the
\* two identifiers
name_prefix_of(test_id_text, series_id_text) ==
    <<"t", "e", "s", "t", "-">> \o test_id_text
      \o <<"-", "s", "e", "r", "i", "e", "s", "-">> \o series_id_text
      \o <<"-">>

\* f'test-{test_id}-series-{throughput_series_id}-'
name_prefix(test_id, throughput_series_id) ==
    name_prefix_of(format(test_id), format(throughput_series_id))

\* topic_name and depletion_topic_name from the texts of the identifiers and
\* of the joined settings
topic_names(test_id_text, series_id_text, settings) ==
    [topic_name |-> sanitize(name_prefix_of(test_id_text, series_id_text) \o settings),
     depletion_topic_name |->
        sanitize(name_prefix_of(test_id_text, series_id_text) \o <<"d", "e", "p", "l">>)]

\* a structured candidate may be wrapped in a one-element list
unwrap(v) == IF v.kind = "list" THEN v.items[1] ELSE v

\* faulty variant of max: the floor of 1 is not applied (C17 depends on the
\* clamp)
max_returns_second(a, b) == b

max(a, b) == IF a >= b THEN a ELSE b

\* faulty variant of producer_throughput_byte: a megabyte is taken as
\* 1000 * 1000 bytes (C15 depends on the factor 1024 * 1024)
producer_throughput_byte_decimal(cluster_throughput, num_producers) ==
    IF cluster_throughput > 0
    THEN (cluster_throughput * 1000 * 1000) \div num_producers
    ELSE -1

\* the byte rates of one producer and of one consumer; -1 stands for
\* unlimited
producer_throughput_byte(cluster_throughput, num_producers) ==
    IF cluster_throughput > 0
    THEN (cluster_throughput * MiB) \div num_producers
    ELSE -1

consumer_throughput_byte(cluster_throughput, size) ==
    IF cluster_throughput > 0
    THEN IF size > 0 THEN (cluster_throughput * MiB) \div size ELSE 0
    ELSE -1

\* faulty variant of num_records: the record count is computed from the rate
\* in the unlimited branch too (C16 depends on the branch)
num_records_always_computed(cluster_throughput, throughput_byte, duration_sec, record_size_byte) ==
    (throughput_byte * duration_sec) \div record_size_byte

\* num_records_producer and num_records_consumer
num_records(cluster_throughput, throughput_byte, duration_sec, record_size_byte) ==
    IF cluster_throughput > 0
    THEN (throughput_byte * duration_sec) \div record_size_byte
    ELSE MaxInt32

\* a floor division of update_parameters has divisor 0: by num_producers or
\* record_size_byte in the throttled branch, by record_size_byte in
\* records_per_sec on both branches; the division by size is guarded
divides_by_zero(cluster_throughput, num_producers, size, record_size_byte) ==
    \/ cluster_throughput > 0 /\ num_producers = 0
    \/ record_size_byte = 0

\* options[i] of a Python list: a negative i counts from the end
in_range(options, i) == -Len(options) <= i /\ i < Len(options)
\* faulty variant of item: the first candidate is taken whatever the index
\* (C24 depends on the lookup by index)
item_first(options, i) == options[1]

item(options, i) == IF i >= 0 THEN options[i + 1] ELSE options[Len(options) + i + 1]

update_parameters(test_spec, updated_test_index, test_id, throughput_series_id) ==
    LET updated_parameters ==
            [param_name \in DOMAIN updated_test_index |->
                item(test_spec.parameters[param_name], updated_test_index[param_name])]
        client_props == unwrap(updated_parameters[CLIENT_PROPS])
        consumer_groups == unwrap(updated_parameters[CONSUMER_GROUPS])
        num_producers == updated_parameters[NUM_PRODUCERS]
        duration_sec == updated_parameters[DURATION]
        num_jobs == num_producers + consumer_groups.num_groups * consumer_groups.size
        record_size_byte == updated_parameters[RECORD_SIZE]
        cluster_throughput == updated_parameters[THROUGHPUT]
        producer_byte == producer_throughput_byte(cluster_throughput, num_producers)
        consumer_byte == consumer_throughput_byte(cluster_throughput, consumer_groups.size)
        num_records_producer ==
            num_records(cluster_throughput, producer_byte, duration_sec, record_size_byte)
        num_records_consumer ==
            num_records(cluster_throughput, consumer_byte, duration_sec, record_size_byte)
        names ==
            topic_names(format(test_id), format(throughput_series_id), join(<<"-">>, <<
                <<"t">> \o format(cluster_throughput),
                <<"p">> \o format(num_producers),
                <<"p", "a", "r", "t">> \o format(updated_parameters[NUM_PARTITIONS]),
                <<"s">> \o format(record_size_byte),
                <<"r">> \o format(updated_parameters[REPLICATION]),
                <<"d">> \o format(duration_sec),
                <<"c", "g">> \o format(consumer_groups.num_groups),
                <<"c", "s">> \o format(consumer_groups.size) >>))
        parameters == [
            num_jobs |-> num_jobs,
            replication_factor |-> updated_parameters[REPLICATION],
            topic_name |-> names.topic_name,
            depletion_topic_name |-> names.depletion_topic_name,
            record_size_byte |-> record_size_byte,
            records_per_sec |-> max(1, producer_byte \div record_size_byte),
            num_partitions |-> updated_parameters[NUM_PARTITIONS],
            duration_sec |-> duration_sec,
            producer_throughput |-> producer_byte,
            num_records_producer |-> num_records_producer,
            num_records_consumer |-> num_records_consumer,
            test_id |-> test_id,
            throughput_series_id |-> throughput_series_id,
            num_producers |-> num_producers,
            num_consumer_groups |-> consumer_groups.num_groups,
            size_consumer_group |-> consumer_groups.size,
            producer_props |-> client_props.producer,
            consumer_props |-> client_props.consumer,
            cluster_throughput_mb_per_sec |-> cluster_throughput,
            client_props |-> [producer |-> client_props.producer,
                              consumer |-> client_props.consumer],
            consumer_groups |-> [num_groups |-> consumer_groups.num_groups,
                                 size |-> consumer_groups.size] ]
    IN  IF \E param_name \in DOMAIN updated_test_index :
                ~in_range(test_spec.parameters[param_name],
                          updated_test_index[param_name])
        THEN Raise("IndexError")
        ELSE IF divides_by_zero(cluster_throughput, num_producers, consumer_groups.size,
                                record_size_byte)
        THEN Raise("ZeroDivisionError")
        ELSE Return([test_specification |-> test_spec,
                     current_test |-> [present |-> TRUE,
                                       index |-> updated_test_index,
                                       parameters |-> parameters]])

----------------------------------------------------------------------------
(* The decision function.  It yields the set of outcomes one call can have: *)
(* what is returned or raised, and the branch that was taken.               *)

NoTest == [present |-> FALSE]
Terminal(test_spec) == [test_specification |-> test_spec, current_test |-> NoTest]

Outcome(ret, branch) == [ret |-> ret, route |-> branch]

\* faulty variant of next_test_index: the skip condition is evaluated whether
\* or not the event carries producer_result (C9 depends on that test)
next_test_index_ignores_feedback(ev) ==
    LET test_spec == ev.test_specification
        previous_test_index == ev.current_test.index
    IN  IF test_spec.skip_remaining_throughput.kind # "absent"
        THEN LET met == evaluate_skip_condition(test_spec.skip_remaining_throughput, ev)
             IN  IF met.raised # "none"
                 THEN [raised |-> met.raised, route |-> "evaluate"]
                 ELSE IF Truthy(met.value)
                 THEN [raised |-> "none", route |-> "skip",
                       steps |-> skip_remaining_throughput(previous_test_index, ev)]
                 ELSE [raised |-> "none", route |-> "advance",
                       steps |-> increment_test_index(previous_test_index, ev, 0)]
        ELSE [raised |-> "none", route |-> "advance",
              steps |-> increment_test_index(previous_test_index, ev, 0)]

\* faulty variant of next_test_index: a skip condition that cannot be
\* evaluated counts as not satisfied and the ordinary counter runs (C13
\* depends on the error being raised)
next_test_index_swallows_error(ev) ==
    LET test_spec == ev.test_specification
        previous_test_index == ev.current_test.index
    IN  IF test_spec.skip_remaining_throughput.kind # "absent"
           /\ ev.producer_result.kind # "absent"
        THEN LET met == evaluate_skip_condition(test_spec.skip_remaining_throughput, ev)
             IN  IF met.raised = "none" /\ Truthy(met.value)
                 THEN [raised |-> "none", route |-> "skip",
                       steps |-> skip_remaining_throughput(previous_test_index, ev)]
                 ELSE [raised |-> "none", route |-> "advance",
                       steps |-> increment_test_index(previous_test_index, ev, 0)]
        ELSE [raised |-> "none", route |-> "advance",
              steps |-> increment_test_index(previous_test_index, ev, 0)]

\* the branch taken and the outcomes of the counter or of the
\* skip rule on it; a failing skip condition raises
next_test_index(ev) ==
    LET test_spec == ev.test_specification
        previous_test_index == ev.current_test.index
    IN  IF test_spec.skip_remaining_throughput.kind # "absent"
           /\ ev.producer_result.kind # "absent"
        THEN LET met == evaluate_skip_condition(test_spec.skip_remaining_throughput, ev)
             IN  IF met.raised # "none"
                 THEN [raised |-> met.raised, route |-> "evaluate"]
                 ELSE IF Truthy(met.value)
                 THEN [raised |-> "none", route |-> "skip",
                       steps |-> skip_remaining_throughput(previous_test_index, ev)]
                 ELSE [raised |-> "none", route |-> "advance",
                       steps |-> increment_test_index(previous_test_index, ev, 0)]
        ELSE [raised |-> "none", route |-> "advance",
              steps |-> increment_test_index(previous_test_index, ev, 0)]

\* faulty variant of resolve_step: OverflowError is not caught (C2 depends on
\* the except clause)
resolve_step_uncaught(test_spec, step, test_id) ==
    IF step.raised = "OverflowError"
    THEN Raise("OverflowError")
    ELSE update_parameters(test_spec, step.index, test_id, step.series_id)

\* faulty variant of resolve_step: the identifiers are passed in the wrong
\* order (C8 depends on test_id being passed through)
resolve_step_swaps_ids(test_spec, step, test_id) ==
    IF step.raised = "OverflowError"
    THEN Return(Terminal(test_spec))
    ELSE update_parameters(test_spec, step.index, step.series_id, test_id)

\* resolve the new index, or turn OverflowError into the
\* terminal payload
resolve_step(test_spec, step, test_id) ==
    IF step.raised = "OverflowError"
    THEN Return(Terminal(test_spec))
    ELSE update_parameters(test_spec, step.index, test_id, step.series_id)

\* faulty variant of first_test: the sweep starts at a num_producers
\* candidate picked by the drawn series id (C23 depends on the index being a
\* function of the payload)
first_test_random_start(test_spec) ==
    {Outcome(update_parameters(test_spec,
                               [key \in DOMAIN test_spec.parameters |->
                                   IF key = NUM_PRODUCERS
                                   THEN series_id % Len(test_spec.parameters[key])
                                   ELSE 0],
                               test_id, series_id),
             "first") : test_id \in randint, series_id \in randint}

\* faulty variant of first_test: a specification with a skip condition is
\* answered with the terminal payload (C27 depends on the first call not
\* looking at the condition)
first_test_consults_rule(test_spec) ==
    IF test_spec.skip_remaining_throughput.kind # "absent"
    THEN {Outcome(Return(Terminal(test_spec)), "first")}
    ELSE {Outcome(update_parameters(test_spec,
                                    [key \in DOMAIN test_spec.parameters |-> 0],
                                    test_id, series_id),
                  "first") : test_id \in randint, series_id \in randint}

\* the first test of a sweep
first_test(test_spec) ==
    LET updated_test_index == [key \in DOMAIN test_spec.parameters |-> 0]
    IN  {Outcome(update_parameters(test_spec, updated_test_index, test_id, series_id),
                 "first") : test_id \in randint, series_id \in randint}

\* faulty variant of increment_index_and_update_parameters: a payload without
\* current_test that carries feedback is taken for an exhausted sweep (C28
\* depends on the first-test branch being taken for every such payload)
increment_index_and_update_parameters_absorbing(ev) ==
    LET test_spec == ev.test_specification
    IN  IF ev.current_test.present
        THEN LET test_id == ev.current_test.parameters.test_id
                 next == next_test_index(ev)
             IN  IF next.raised # "none"
                 THEN {Outcome(Raise(next.raised), next.route)}
                 ELSE {Outcome(resolve_step(test_spec, step, test_id), next.route) :
                          step \in next.steps}
        ELSE IF ev.producer_result.kind # "absent"
        THEN {Outcome(Return(Terminal(test_spec)), "exhausted")}
        ELSE first_test(test_spec)

increment_index_and_update_parameters(ev) ==
    LET test_spec == ev.test_specification
    IN  IF ev.current_test.present
        THEN LET test_id == ev.current_test.parameters.test_id
                 next == next_test_index(ev)
             IN  IF next.raised # "none"
                 THEN {Outcome(Raise(next.raised), next.route)}
                 ELSE {Outcome(resolve_step(test_spec, step, test_id), next.route) :
                          step \in next.steps}
        ELSE first_test(test_spec)

----------------------------------------------------------------------------
(* The depletion handler *)

\* faulty variant of depletion_duration_sec: the hours are converted to
\* minutes (C20 depends on the factor 60 * 60)
depletion_duration_minutes(approximate_timeout_hours) == approximate_timeout_hours * 60

\* approximate_timeout_hours * 60 * 60
depletion_duration_sec(approximate_timeout_hours) == approximate_timeout_hours * 60 * 60

\* f'test-{test_id}-series-{throughput_series_id}-depl' of the depletion
\* handler, on the texts of the two identifiers; re.sub is not applied
depletion_name_of(test_id_text, series_id_text) ==
    name_prefix_of(test_id_text, series_id_text) \o <<"d", "e", "p", "l">>

\* faulty variant of depletion_parameters: the producer rate is set to
\* unlimited as well (C21 depends on the untouched fields)
depletion_parameters_unthrottled(current_parameters, depletion_sec) ==
    [current_parameters EXCEPT
        !.duration_sec = depletion_sec,
        !.records_per_sec = -1,
        !.producer_throughput = -1,
        !.num_records_producer = MaxInt32,
        !.num_records_consumer = 0,
        !.num_jobs = current_parameters.num_producers,
        !.depletion_topic_name =
            depletion_name_of(format(current_parameters.test_id),
                              format(current_parameters.throughput_series_id))]

\* faulty variant of depletion_parameters: the depletion time is added to the
\* duration of the test (C30 depends on the duration being overwritten)
depletion_parameters_extends(current_parameters, depletion_sec) ==
    [current_parameters EXCEPT
        !.duration_sec = current_parameters.duration_sec + depletion_sec,
        !.records_per_sec = -1,
        !.num_records_producer = MaxInt32,
        !.num_records_consumer = 0,
        !.num_jobs = current_parameters.num_producers,
        !.depletion_topic_name =
            depletion_name_of(format(current_parameters.test_id),
                              format(current_parameters.throughput_series_id))]

\* current_parameters.copy() followed by update({...})
depletion_parameters(current_parameters, depletion_sec) ==
    [current_parameters EXCEPT
        !.duration_sec = depletion_sec,
        !.records_per_sec = -1,
        !.num_records_producer = MaxInt32,
        !.num_records_consumer = 0,
        !.num_jobs = current_parameters.num_producers,
        !.test_id = current_parameters.test_id,
        !.throughput_series_id = current_parameters.throughput_series_id,
        !.depletion_topic_name =
            depletion_name_of(format(current_parameters.test_id),
                              format(current_parameters.throughput_series_id))]

\* the parameters of the current test rewritten for the depletion run
update_parameters_for_depletion(ev) ==
    IF ~ev.current_test.present THEN Raise("KeyError")
    ELSE
    LET test_specification == ev.test_specification
        test_index == ev.current_test.index
        depletion_sec ==
            depletion_duration_sec(
                test_specification.depletion_configuration.approximate_timeout_hours)
    IN  Return([test_specification |-> test_specification,
                current_test |-> [
                    present |-> TRUE,
                    index |-> test_index,
                    parameters |->
                        depletion_parameters(ev.current_test.parameters, depletion_sec)]])

----------------------------------------------------------------------------
(* Specifications swept and feedback supplied by the test-execution layer   *)

\* candidate values of the axes
ThroughputCandidate(i) == IF i = 1 THEN 100 ELSE IF i % 3 = 0 THEN 0 ELSE 2 * i
ConsumerGroupCandidate(i) ==
    IF i % 2 = 1
    THEN [kind |-> "dict", num_groups |-> i - 1, size |-> 2 * (i - 1)]
    ELSE [kind |-> "list",
          items |-> <<[kind |-> "dict", num_groups |-> i - 1, size |-> 3]>>]
ProducerCandidate(i) == 2 * i - 1
ClientProps == [kind |-> "list",
                items |-> <<[kind |-> "dict", producer |-> "acks=all",
                             consumer |-> ""]>>]

Parameters(nt, ng, np) == [
    cluster_throughput_mb_per_sec |-> [i \in 1..nt |-> ThroughputCandidate(i)],
    consumer_groups |-> [i \in 1..ng |-> ConsumerGroupCandidate(i)],
    num_producers |-> [i \in 1..np |-> ProducerCandidate(i)],
    client_props |-> <<ClientProps>>,
    num_partitions |-> <<6>>,
    record_size_byte |-> <<1024>>,
    replication_factor |-> <<3>>,
    duration_sec |-> <<10>> ]

\* declaration orders of the axes (a mapping keeps its insertion order)
KeyOrders == {
    <<THROUGHPUT, CONSUMER_GROUPS, NUM_PRODUCERS, CLIENT_PROPS, NUM_PARTITIONS,
      RECORD_SIZE, REPLICATION, DURATION>>,
    <<CONSUMER_GROUPS, THROUGHPUT, NUM_PRODUCERS, CLIENT_PROPS, NUM_PARTITIONS,
      RECORD_SIZE, REPLICATION, DURATION>>,
    <<NUM_PRODUCERS, THROUGHPUT, CONSUMER_GROUPS, CLIENT_PROPS, NUM_PARTITIONS,
      RECORD_SIZE, REPLICATION, DURATION>>,
    <<CLIENT_PROPS, THROUGHPUT, NUM_PARTITIONS, NUM_PRODUCERS, RECORD_SIZE,
      CONSUMER_GROUPS, REPLICATION, DURATION>> }

Compare(op, a, b) == [kind |-> "dict", key |-> op, args |-> <<a, b>>]

SkipConditions == {
    Absent,
    Compare("less-than", Str(METRIC), Num(1)),
    Compare("greater-than", Num(1), Str(METRIC)),
    Compare("less-than", Compare("equals", Str(METRIC), Num(1)), Num(1)) }

TestSpecifications ==
    {[parameter_keys |-> keys,
      parameters |-> Parameters(nt, ng, np),
      skip_remaining_throughput |-> cond,
      depletion_configuration |-> [approximate_timeout_hours |-> 2]] :
        keys \in KeyOrders, nt \in {1, MaxOptions + 1}, ng \in {1, MaxOptions},
        np \in {MaxOptions}, cond \in SkipConditions}

\* the specifications whose series are logged: full-length axes, the skip rule
\* of the sample configuration, and the axis orders in which the throughput
\* axis is declared before consumer_groups (a skip-ahead then moves forward in
\* the count, so every sweep ends and the log stays small)
SeriesSpecifications ==
    {s \in TestSpecifications :
        /\ Len(s.parameters[THROUGHPUT]) = MaxOptions + 1
        /\ Len(s.parameters[CONSUMER_GROUPS]) = MaxOptions
        /\ s.parameter_keys[1] # CONSUMER_GROUPS
        /\ s.skip_remaining_throughput = Compare("less-than", Str(METRIC), Num(1))}

\* skip conditions as trees: leaves, comparisons of leaves, comparisons of a
\* comparison with a number; "equals" and "achieved_mb_per_sec" are names
\* evaluate_skip_condition does not know
Leaves == {Str(METRIC), Num(1), Str("achieved_mb_per_sec")}
Comparisons ==
    {Compare(op, a, b) : op \in {"less-than", "greater-than", "equals"},
                         a \in Leaves, b \in Leaves}
NestedComparisons ==
    {Compare(op, a, Num(1)) : op \in {"less-than", "greater-than"}, a \in Comparisons}
      \cup {Compare(op, Num(1), b) : op \in {"less-than", "greater-than"},
                                     b \in Comparisons}
ConditionSpecifications ==
    {[parameter_keys |-> <<THROUGHPUT, CONSUMER_GROUPS, NUM_PRODUCERS, CLIENT_PROPS,
                           NUM_PARTITIONS, RECORD_SIZE, REPLICATION, DURATION>>,
      parameters |-> Parameters(1, MaxOptions, 1),
      skip_remaining_throughput |-> cond,
      depletion_configuration |-> [approximate_timeout_hours |-> 2]] :
        cond \in Comparisons \cup NestedComparisons}

\* specifications for the arithmetic of update_parameters: two throughput
\* candidates, one candidate for each other axis, values 0 included
ThroughputValues == {<<0, 100>>, <<100, 0>>, <<1, 4>>, <<4, 1>>}
ProducerValues == {0, 1, 3}
RecordSizeValues == {0, 1, 1000, 1024}
ConsumerGroupValues == {
    [kind |-> "dict", num_groups |-> 0, size |-> 0],
    [kind |-> "list", items |-> <<[kind |-> "dict", num_groups |-> 1, size |-> 3]>>],
    [kind |-> "dict", num_groups |-> 2, size |-> 4] }
DurationValues == {1, 10}
ResolverSpecifications ==
    {[parameter_keys |-> <<THROUGHPUT, CONSUMER_GROUPS, NUM_PRODUCERS, CLIENT_PROPS,
                           NUM_PARTITIONS, RECORD_SIZE, REPLICATION, DURATION>>,
      parameters |-> [
          cluster_throughput_mb_per_sec |-> throughputs,
          consumer_groups |-> <<groups>>,
          num_producers |-> <<producers>>,
          client_props |-> <<ClientProps>>,
          num_partitions |-> <<6>>,
          record_size_byte |-> <<record_size>>,
          replication_factor |-> <<3>>,
          duration_sec |-> <<duration>> ],
      skip_remaining_throughput |-> Absent,
      depletion_configuration |-> [approximate_timeout_hours |-> 2]] :
        throughputs \in ThroughputValues, groups \in ConsumerGroupValues,
        producers \in ProducerValues, record_size \in RecordSizeValues,
        duration \in DurationValues}

\* identifiers as texts, as a payload may carry them, and the text of the
\* joined settings (a float throughput 1e+20 formats with a '+')
TextChars == {"a", "Z", "7", ".", "_", "-", " ", "/"}
RECURSIVE Texts(_)
Texts(n) ==
    IF n = 0 THEN {<<>>}
    ELSE Texts(n - 1) \cup {text \o <<c>> : text \in Texts(n - 1), c \in TextChars}
SettingsTexts == {<<"t", "0", "-", "p", "1">>,
                  <<"t", "1", "e", "+", "2", "0", "-", "p", "1">>}
NameInputs ==
    [test_id : Texts(MaxText), throughput_series_id : Texts(1), settings : SettingsTexts]

\* specifications for the depletion handler
TimeoutHours == {1, 2, 3}
DepletionSpecifications ==
    {[parameter_keys |-> <<THROUGHPUT, CONSUMER_GROUPS, NUM_PRODUCERS, CLIENT_PROPS,
                           NUM_PARTITIONS, RECORD_SIZE, REPLICATION, DURATION>>,
      parameters |-> Parameters(2, MaxOptions, MaxOptions),
      skip_remaining_throughput |-> cond,
      depletion_configuration |-> [approximate_timeout_hours |-> hours]] :
        cond \in {Absent, Compare("less-than", Str(METRIC), Num(1))},
        hours \in TimeoutHours}

Summary(mb) == [test_summary |-> [mb_per_sec |-> mb]]
Single(mb) == [kind |-> "dict", test_summary |-> [mb_per_sec |-> mb]]
Many(items) == [kind |-> "list", items |-> items]

ProducerResults == {
    Absent,
    Single(Absent),
    Single(Str(<<"5", "0">>)),
    Many(<<Summary(Num(50)), Summary(Str(<<"5", "0">>))>>),
    Many(<<Summary(Str(<<"2", ".", "5">>)), Summary(Absent),
           Summary(Str(<<"1", ".", "5">>))>>) }

----------------------------------------------------------------------------
(* State machine *)

WithFeedback(payload, producer_result) ==
    [test_specification |-> payload.test_specification,
     current_test |-> payload.current_test,
     producer_result |-> producer_result]

Point(payload) ==
    [index |-> payload.current_test.index,
     series_id |-> payload.current_test.parameters.throughput_series_id]

InitWith(specifications, records) ==
    /\ \E test_spec \in specifications :
          /\ event = WithFeedback(Terminal(test_spec), Absent)
          /\ result = Return(Terminal(test_spec))
    /\ route = "start"
    /\ recording = records
    /\ visited = {}
    /\ returned = 0
    /\ series_log = {}

\* the records of the sweep after a call with the given outcome
Record(outcome) ==
    LET payload == outcome.ret.value
        first == outcome.route = "first"
    IN  IF "calls" \in recording
        THEN returned' = 1 - returned /\ UNCHANGED <<visited, series_log>>
        ELSE IF outcome.ret.raised # "none"
        THEN UNCHANGED <<visited, returned, series_log>>
        ELSE /\ returned' = IF "visited" \notin recording THEN returned
                            ELSE IF first THEN 1 ELSE returned + 1
             /\ visited' = IF "visited" \notin recording
                              \/ ~payload.current_test.present THEN visited
                           ELSE (IF first THEN {} ELSE visited)
                                   \cup {payload.current_test.index}
             /\ series_log' = IF "series" \notin recording
                                 \/ ~payload.current_test.present THEN series_log
                              ELSE (IF first THEN {} ELSE series_log)
                                      \cup {Point(payload)}

\* the orchestrator calls the decision function on the payload it holds, to
\* which the test-execution layer may have added a producer_result; after a
\* failed call it calls again with the same event
Decide ==
    \E next_event \in IF result.raised # "none" THEN {event}
                      ELSE {WithFeedback(result.value, producer_result) :
                               producer_result \in ProducerResults} :
    \E outcome \in increment_index_and_update_parameters(next_event) :
        /\ event' = next_event
        /\ result' = outcome.ret
        /\ route' = outcome.route
        /\ recording' = recording
        /\ Record(outcome)

\* a call in which the skip condition is not satisfied
DecideOrdinary == Decide /\ route' # "skip"

Init == InitWith(TestSpecifications, {})
InitNoSkip == InitWith(TestSpecifications, {"visited"})
InitConditions == InitWith(ConditionSpecifications, {})
InitResolver == InitWith(ResolverSpecifications, {})
InitSeries == InitWith(SeriesSpecifications, {"series"})

Next == Decide

Spec == Init /\ [][Next]_vars
SpecNoSkip == InitNoSkip /\ [][DecideOrdinary]_vars
SpecConditions == InitConditions /\ [][Next]_vars
SpecResolver == InitResolver /\ [][Next]_vars
SpecSeries == InitSeries /\ [][Next]_vars

\* sweeps over more than one throughput candidate and more than one
\* consumer-group candidate, under every key order and skip condition
SweepSpecifications ==
    {s \in TestSpecifications :
        /\ Len(s.parameters[THROUGHPUT]) > 1
        /\ Len(s.parameters[CONSUMER_GROUPS]) > 1}
InitSweep == InitWith(SweepSpecifications, {})

SpecSweep == InitSweep /\ [][Next]_vars

\* sweeps with a skip condition that can be evaluated; the orchestrator keeps
\* calling the decision function, which always answers (Decide is enabled in
\* every state), so a call is made again and again
TerminatingSpecifications ==
    {s \in SweepSpecifications :
        s.skip_remaining_throughput \in
            {Compare("less-than", Str(METRIC), Num(1)),
             Compare("greater-than", Num(1), Str(METRIC))}}
InitTermination == InitWith(TerminatingSpecifications, {"calls"})

\* a call of the decision function was made: with "calls" recorded every call
\* flips `returned`, and nothing else changes it
Called == returned' = 1 - returned

SpecTermination == InitTermination /\ [][Next]_vars /\ WF_returned(Called)

\* the names update_parameters builds (lines 275-289) from identifiers and
\* settings given as texts
NameTopics ==
    /\ result' = Return(topic_names(event.test_id, event.throughput_series_id,
                                    event.settings))
    /\ route' = "names"
    /\ UNCHANGED <<event, recording, visited, returned, series_log>>

InitNames ==
    /\ event \in NameInputs
    /\ result = Return([topic_name |-> <<>>, depletion_topic_name |-> <<>>])
    /\ route = "start"
    /\ recording = {}
    /\ visited = {}
    /\ returned = 0
    /\ series_log = {}

\* the depletion handler called on the names just built: topic_name is
\* copied, depletion_topic_name is formatted again (lines 385-397)
NameDepletion ==
    /\ route = "names"
    /\ result' = Return([result.value EXCEPT
                            !.depletion_topic_name =
                                depletion_name_of(event.test_id,
                                                  event.throughput_series_id)])
    /\ route' = "depletion_names"
    /\ UNCHANGED <<event, recording, visited, returned, series_log>>

NextNames == NameTopics \/ NameDepletion

SpecNames == InitNames /\ [][NextNames]_vars

\* the orchestrator calls the depletion handler on the payload last returned
ToDepletion ==
    /\ result.raised = "none"
    /\ \E producer_result \in ProducerResults :
          LET ev == WithFeedback(result.value, producer_result)
          IN  /\ event' = ev
              /\ result' = update_parameters_for_depletion(ev)
    /\ route' = "depletion"
    /\ UNCHANGED <<recording, visited, returned, series_log>>

InitDepletion == InitWith(DepletionSpecifications, {})

NextDepletion == Decide \/ ToDepletion

SpecDepletion == InitDepletion /\ [][NextDepletion]_vars

----------------------------------------------------------------------------
(* Vocabulary of the properties                                             *)

TestSpec == event.test_specification
Keys == TestSpec.parameter_keys
Options(key) == TestSpec.parameters[key]
OtherAxes == DOMAIN TestSpec.parameters \ {THROUGHPUT}

\* the last call was made on a payload with current_test / returned a payload
\* with current_test / returned the terminal payload
Continued == route # "start" /\ event.current_test.present
ReturnedTest == result.raised = "none" /\ result.value.current_test.present
ReturnedTerminal ==
    route # "start" /\ result.raised = "none" /\ ~result.value.current_test.present

InIndex == event.current_test.index
InSeries == event.current_test.parameters.throughput_series_id
OutIndex == result.value.current_test.index
OutSeries == result.value.current_test.parameters.throughput_series_id

\* number of combinations, and the mixed-radix rank of an index with the
\* first declared axis as least significant digit
RECURSIVE Weight(_)
Weight(pos) == IF pos = 0 THEN 1 ELSE Weight(pos - 1) * Len(Options(Keys[pos]))
Combinations == Weight(Len(Keys))

RECURSIVE RankFrom(_, _)
RankFrom(index, pos) ==
    IF pos > Len(Keys) THEN 0
    ELSE index[Keys[pos]] * Weight(pos - 1) + RankFrom(index, pos + 1)
Rank(index) == RankFrom(index, 1)

InBounds(index) ==
    /\ DOMAIN index = DOMAIN TestSpec.parameters
    /\ \A key \in DOMAIN index : 0 <= index[key] /\ index[key] < Len(Options(key))

\* what the counter started at position 0 yields on the event of the last call
OrdinaryAdvance == increment_test_index(InIndex, event, 0)

----------------------------------------------------------------------------
(* C1..C10                                                                  *)

\* C1 (full enumeration, checked on sweeps in which the skip condition is never
\* satisfied): the payloads returned so far in the sweep carry pairwise
\* distinct index tuples; the terminal payload is returned by call number
\* r1*...*rn + 1 of the sweep, after exactly r1*...*rn distinct tuples.
C1_FullEnumeration ==
    (route # "start" /\ result.raised = "none") =>
        IF result.value.current_test.present
        THEN Cardinality(visited) = returned /\ returned <= Combinations
        ELSE returned = Combinations + 1 /\ Cardinality(visited) = Combinations

C1_Witness ==
    ReturnedTerminal /\ Combinations >= 12 /\ returned = Combinations + 1

\* C2 (exhaustion is not a failure): OverflowError never leaves the decision
\* function; when the counter or the skip rule raises it on a payload with
\* current_test, the call returns the payload holding test_specification only.
C2_ExhaustionReturnsTerminal ==
    /\ result.raised # "OverflowError"
    /\ (Continued /\ route \in {"advance", "skip"}) =>
          LET steps == IF route = "skip"
                       THEN skip_remaining_throughput(InIndex, event)
                       ELSE OrdinaryAdvance
          IN  Overflow \in steps => result = Return(Terminal(TestSpec))

C2_Witness ==
    /\ Continued /\ route = "skip" /\ ReturnedTerminal
    /\ Overflow \in skip_remaining_throughput(InIndex, event)
    /\ Rank(InIndex) + 1 < Combinations

\* C3 (series continuity, preserve): a call whose returned index differs from
\* the input index only by the throughput axis incremented by one returns the
\* throughput_series_id of the input payload.
C3_ThroughputStepKeepsSeries ==
    (Continued /\ ReturnedTest
       /\ OutIndex = [InIndex EXCEPT ![THROUGHPUT] = @ + 1])
        => OutSeries = InSeries

C3_Witness ==
    /\ Continued /\ ReturnedTest
    /\ OutIndex = [InIndex EXCEPT ![THROUGHPUT] = @ + 1]
    /\ Keys[1] # THROUGHPUT
    /\ InIndex[THROUGHPUT] = 1

\* C4 (series continuity, change), as claimed: a call that resets the
\* throughput axis to 0 (carry or skip) or changes another axis returns a
\* throughput_series_id different from the one of the input payload.
C4_ChangeStartsNewSeries ==
    (Continued /\ ReturnedTest
       /\ (OutIndex[THROUGHPUT] = 0 \/ \E key \in OtherAxes : OutIndex[key] # InIndex[key]))
        => OutSeries # InSeries

\* C5 (series grouping), as claimed: two test points returned in one sweep
\* with the same throughput_series_id agree on every axis but throughput.
C5_SeriesSharesOtherAxes ==
    \A p, q \in series_log :
        p.series_id = q.series_id => \A key \in OtherAxes : p.index[key] = q.index[key]

\* C6 (mixed-radix successor): the counter started at position 0 returns the
\* index of rank + 1, first declared axis least significant, and raises
\* Exhausted (terminal payload) exactly on the last combination.
C6_CounterIsSuccessor ==
    (Continued /\ route = "advance" /\ result.raised = "none") =>
        /\ InBounds(InIndex)
        /\ IF Rank(InIndex) + 1 = Combinations
           THEN OrdinaryAdvance = {Overflow} /\ ~result.value.current_test.present
           ELSE /\ \A r \in OrdinaryAdvance :
                      r.raised = "none" /\ Rank(r.index) = Rank(InIndex) + 1
                /\ result.value.current_test.present
                /\ Rank(OutIndex) = Rank(InIndex) + 1

C6_Witness ==
    /\ Continued /\ route = "advance" /\ ReturnedTest
    /\ Cardinality({key \in DOMAIN InIndex : OutIndex[key] < InIndex[key]}) >= 2

\* C7 (index bounds): no call looks a candidate up out of range, and every
\* returned index has 0 <= index[axis] < number of candidates on every axis
\* (first call, advance, carry and skip-ahead).
C7_IndexInBounds ==
    /\ result.raised # "IndexError"
    /\ ReturnedTest => InBounds(OutIndex)

C7_Witness ==
    /\ Continued /\ route = "skip" /\ ReturnedTest
    /\ InIndex[THROUGHPUT] > 0 /\ OutIndex[THROUGHPUT] = 0
    /\ OutIndex[CONSUMER_GROUPS] = Len(Options(CONSUMER_GROUPS)) - 1

\* C8 (test_id is fixed): a payload returned for a payload with current_test
\* carries the test_id of the input payload, on every route.
C8_TestIdFixed ==
    (Continued /\ ReturnedTest) =>
        result.value.current_test.parameters.test_id
            = event.current_test.parameters.test_id

C8_Witness ==
    /\ Continued /\ route = "skip" /\ ReturnedTest
    /\ OutSeries # InSeries
    /\ event.current_test.parameters.test_id = 1

\* the specification has a skip condition, the event carries producer_result
\* and the condition evaluates truthy
SkipRuleMet ==
    /\ TestSpec.skip_remaining_throughput.kind # "absent"
    /\ event.producer_result.kind # "absent"
    /\ LET met == evaluate_skip_condition(TestSpec.skip_remaining_throughput, event)
       IN  met.raised = "none" /\ met.value.n # 0

SkipRuleFails ==
    /\ TestSpec.skip_remaining_throughput.kind # "absent"
    /\ event.producer_result.kind # "absent"
    /\ evaluate_skip_condition(TestSpec.skip_remaining_throughput, event).raised # "none"

\* C9 (skip routing): the skip-ahead route is taken only if the skip condition
\* and the feedback are both present and the condition is truthy; otherwise the
\* returned index is the ordinary counter advance from position 0.
C9_SkipRouting ==
    Continued =>
        /\ route = "skip" => SkipRuleMet
        /\ (~SkipRuleMet /\ ~SkipRuleFails) =>
              /\ route = "advance"
              /\ result.raised = "none"
              /\ IF Overflow \in OrdinaryAdvance
                 THEN ~result.value.current_test.present
                 ELSE /\ result.value.current_test.present
                      /\ OutIndex \in {r.index : r \in OrdinaryAdvance}

C9_Witness ==
    /\ Continued /\ route = "advance" /\ ReturnedTest
    /\ TestSpec.skip_remaining_throughput.kind # "absent"
    /\ event.producer_result.kind # "absent"
    /\ InIndex[CONSUMER_GROUPS] + 1 < Len(Options(CONSUMER_GROUPS))

\* the feedback as a sequence of records, and the sum of their mb_per_sec
FeedbackRecords ==
    IF event.producer_result.kind = "list" THEN event.producer_result.items
    ELSE <<[test_summary |-> event.producer_result.test_summary]>>

MbValue(record) ==
    LET mb == record.test_summary.mb_per_sec
    IN  IF mb.kind = "absent" THEN Rat(0, 1)
        ELSE IF mb.kind = "num" THEN Rat(mb.val, 1)
        ELSE float_str(mb.val)

RECURSIVE RatSum(_)
RatSum(records) ==
    IF records = <<>> THEN Rat(0, 1)
    ELSE RatAdd(MbValue(Head(records)), RatSum(Tail(records)))

Requested == event.current_test.parameters.cluster_throughput_mb_per_sec

SampleSkipRule ==
    /\ Continued
    /\ TestSpec.skip_remaining_throughput = Compare("less-than", Str(METRIC), Num(1))
    /\ event.producer_result.kind # "absent"
    /\ Requested > 0

\* C10 (skip decision): under {less-than: [sent_div_requested_mb_per_sec, 1]}
\* with requested throughput R > 0, the skip route is taken exactly when the
\* sum of mb_per_sec over the feedback records is less than R.
C10_SkipDecision ==
    SampleSkipRule =>
        LET sum == RatSum(FeedbackRecords)
        IN  /\ route \in {"skip", "advance"}
            /\ route = "skip" <=> sum.n < Requested * sum.d

\* achieved 50 against requested 100
C10_Witness ==
    /\ SampleSkipRule /\ route = "skip"
    /\ Requested = 100
    /\ event.producer_result = Single(Str(<<"5", "0">>))
    /\ sent_div_requested_mb_per_sec(event) = Rat(50, 100)

----------------------------------------------------------------------------
(* C11..C20                                                                 *)

\* the index the skip rule must produce from the index of the event
SkippedIndex ==
    [key \in DOMAIN InIndex |->
        IF key = THROUGHPUT THEN 0
        ELSE IF key = CONSUMER_GROUPS THEN InIndex[key] + 1
        ELSE InIndex[key]]

\* C11 (skip-ahead index transform): when consumer_groups is not at its last
\* candidate, the skip rule applied to the index of the event yields that index
\* with the throughput axis at 0 and consumer_groups one further, every other
\* axis untouched wherever it is declared, with any series id of the draw; a
\* call that took the skip route and returned a test returns that index.
C11_SkipAheadFrame ==
    (Continued /\ InIndex[CONSUMER_GROUPS] + 1 < Len(Options(CONSUMER_GROUPS))) =>
        /\ skip_remaining_throughput(InIndex, event) =
              {Pair(SkippedIndex, new_series_id) : new_series_id \in randint}
        /\ route = "skip" =>
              /\ ReturnedTest
              /\ OutIndex = SkippedIndex
              /\ OutSeries \in randint

\* skip taken with num_producers, declared first, beyond its first candidate
C11_Witness ==
    /\ Continued /\ route = "skip" /\ ReturnedTest
    /\ Keys[1] = NUM_PRODUCERS
    /\ InIndex[NUM_PRODUCERS] > 0 /\ InIndex[THROUGHPUT] > 0
    /\ OutIndex[NUM_PRODUCERS] = InIndex[NUM_PRODUCERS]
    /\ OutIndex[THROUGHPUT] = 0

\* C12 (skip-ahead exhaustion): when the skip condition is satisfied and
\* consumer_groups is at its last candidate, the call returns the terminal
\* payload by the skip route, whatever candidates the other axes have left.
C12_SkipAheadExhaustion ==
    (Continued /\ SkipRuleMet
       /\ InIndex[CONSUMER_GROUPS] + 1 >= Len(Options(CONSUMER_GROUPS))) =>
        /\ route = "skip"
        /\ skip_remaining_throughput(InIndex, event) = {Overflow}
        /\ result = Return(Terminal(TestSpec))

\* the sweep ends by the skip rule while num_producers has a candidate left
C12_Witness ==
    /\ Continued /\ SkipRuleMet /\ ReturnedTerminal
    /\ InIndex[CONSUMER_GROUPS] + 1 = Len(Options(CONSUMER_GROUPS))
    /\ InIndex[NUM_PRODUCERS] + 1 < Len(Options(NUM_PRODUCERS))
    /\ Overflow \notin OrdinaryAdvance

\* a skip condition with a node evaluate_skip_condition does not recognise
RECURSIVE Unrecognised(_)
Unrecognised(condition) ==
    CASE condition.kind = "dict" ->
            IF condition.key \in {"greater-than", "less-than"}
            THEN \E i \in DOMAIN condition.args : Unrecognised(condition.args[i])
            ELSE TRUE
      [] condition.kind = "str" -> condition.val # METRIC
      [] condition.kind = "num" -> FALSE
      [] OTHER -> TRUE

\* C13 (unknown operator is fatal): when the skip condition has an operator or
\* a metric name the evaluator does not recognise, at any depth, a call on a
\* payload with current_test and feedback fails with the evaluation error: it
\* returns neither the terminal payload nor a test of the ordinary counter.
C13_UnknownOperatorFatal ==
    (Continued /\ event.producer_result.kind # "absent"
       /\ Unrecognised(TestSpec.skip_remaining_throughput)) =>
        /\ result = Raise("ValueError")
        /\ route = "evaluate"

\* the unknown operator sits two levels down, in the second argument
C13_Witness ==
    /\ Continued /\ event.producer_result.kind # "absent"
    /\ TestSpec.skip_remaining_throughput \in NestedComparisons
    /\ TestSpec.skip_remaining_throughput.args[2].kind = "dict"
    /\ TestSpec.skip_remaining_throughput.args[2].key = "equals"
    /\ result = Raise("ValueError")

\* total achieved MB/s of the event, and the requested throughput after the
\* adjustments (absent: 1, zero: 1)
Achieved ==
    IF event.producer_result.kind = "absent" THEN Rat(0, 1) ELSE RatSum(FeedbackRecords)
AdjustedRequested ==
    IF ~event.current_test.present THEN 1
    ELSE IF Requested = 0 THEN 1 ELSE Requested

\* C14 (metric is total): on every event the metric evaluates, without a
\* division by zero, to the total achieved MB/s divided by the adjusted
\* requested throughput (1 when the request is 0 or absent); under
\* {less-than: [metric, 1]} the call skips exactly when that quotient is
\* below 1.
C14_MetricIsTotal ==
    LET ratio == evaluate_skip_condition(Str(METRIC), event)
    IN  /\ ratio.raised = "none"
        /\ ratio.value.d > 0
        /\ ratio.value.n * (Achieved.d * AdjustedRequested) = Achieved.n * ratio.value.d
        /\ (Continued /\ event.producer_result.kind # "absent"
              /\ TestSpec.skip_remaining_throughput =
                    Compare("less-than", Str(METRIC), Num(1))) =>
              /\ route \in {"skip", "advance"}
              /\ route = "skip" <=> Achieved.n < AdjustedRequested * Achieved.d

\* requested throughput 0 and achieved 50: the quotient is 50, no skip
C14_Witness ==
    /\ Continued /\ Requested = 0
    /\ event.producer_result = Single(Str(<<"5", "0">>))
    /\ TestSpec.skip_remaining_throughput = Compare("less-than", Str(METRIC), Num(1))
    /\ route = "advance"
    /\ LET ratio == evaluate_skip_condition(Str(METRIC), event)
       IN  ratio.raised = "none" /\ ratio.value.n = 50 * ratio.value.d

\* the values the returned index selects, and the returned parameters
Chosen(key) == Options(key)[OutIndex[key] + 1]
ChosenGroups == unwrap(Chosen(CONSUMER_GROUPS))
Resolved == result.value.current_test.parameters

\* q is the floor of a / b, for b > 0
IsFloor(q, a, b) == q * b <= a /\ a < (q + 1) * b

\* where to look for the floor of a / b
Near(a, b) == IF b > 0 THEN ((a \div b) - 1)..((a \div b) + 1) ELSE {0}

\* C15 (throttled branch): for a throughput T > 0 the returned parameters have
\* producer_throughput = floor(T * 1024 * 1024 / num_producers),
\* num_records_producer = floor(producer_throughput * duration_sec /
\* record_size_byte) and num_records_consumer = floor(consumerByteRate *
\* duration_sec / record_size_byte), where consumerByteRate is
\* floor(T * 1024 * 1024 / size) when size > 0 and 0 otherwise.
C15_ThrottledBranch ==
    (ReturnedTest /\ Chosen(THROUGHPUT) > 0) =>
        LET T == Chosen(THROUGHPUT)
            size == ChosenGroups.size
        IN  /\ Resolved.cluster_throughput_mb_per_sec = T
            /\ IsFloor(Resolved.producer_throughput, T * 1024 * 1024,
                       Chosen(NUM_PRODUCERS))
            /\ IsFloor(Resolved.num_records_producer,
                       Resolved.producer_throughput * Chosen(DURATION),
                       Chosen(RECORD_SIZE))
            /\ \E consumerByteRate \in Near(T * 1024 * 1024, size) :
                  /\ IF size > 0 THEN IsFloor(consumerByteRate, T * 1024 * 1024, size)
                     ELSE consumerByteRate = 0
                  /\ IsFloor(Resolved.num_records_consumer,
                             consumerByteRate * Chosen(DURATION), Chosen(RECORD_SIZE))

\* 4 MB/s over 3 producers and consumers in groups of 3, records of 1000 bytes
C15_Witness ==
    /\ ReturnedTest
    /\ Chosen(THROUGHPUT) = 4 /\ Chosen(NUM_PRODUCERS) = 3
    /\ ChosenGroups.size = 3 /\ Chosen(RECORD_SIZE) = 1000 /\ Chosen(DURATION) = 10
    /\ Resolved.producer_throughput = 1398101
    /\ Resolved.num_records_producer = 13981
    /\ Resolved.num_records_consumer = 13981

\* C16 (unlimited branch): whenever the resolved throughput is 0, the returned
\* parameters have producer_throughput = -1 and num_records_producer =
\* num_records_consumer = 2147483647, whatever the other axes select.
C16_UnlimitedBranch ==
    (ReturnedTest /\ Chosen(THROUGHPUT) = 0) =>
        /\ Resolved.cluster_throughput_mb_per_sec = 0
        /\ Resolved.producer_throughput = -1
        /\ Resolved.num_records_producer = 2147483647
        /\ Resolved.num_records_consumer = 2147483647

\* unlimited throughput with no producer and an empty consumer group
C16_Witness ==
    /\ ReturnedTest /\ Chosen(THROUGHPUT) = 0
    /\ Chosen(NUM_PRODUCERS) = 0 /\ ChosenGroups.size = 0
    /\ Chosen(RECORD_SIZE) = 1000 /\ Chosen(DURATION) = 1
    /\ Resolved.num_records_consumer = 2147483647

\* C17 (records_per_sec clamp): every returned parameter set has
\* records_per_sec = max(1, floor(producer_throughput / record_size_byte)),
\* hence at least 1; with unlimited throughput (producer_throughput = -1) the
\* value is 1.
C17_RecordsPerSecClamp ==
    ReturnedTest =>
        /\ Resolved.records_per_sec >= 1
        /\ \E q \in Near(Resolved.producer_throughput, Chosen(RECORD_SIZE)) :
              /\ IsFloor(q, Resolved.producer_throughput, Chosen(RECORD_SIZE))
              /\ Resolved.records_per_sec = IF q > 1 THEN q ELSE 1
        /\ Resolved.producer_throughput = -1 => Resolved.records_per_sec = 1

C17_Witness ==
    /\ ReturnedTest /\ Chosen(THROUGHPUT) = 0 /\ Chosen(RECORD_SIZE) = 1024
    /\ Resolved.producer_throughput = -1
    /\ Resolved.records_per_sec = 1

\* the indices the resolver was called with in the last call
ResolvedIndices ==
    IF route = "first" THEN {[key \in DOMAIN TestSpec.parameters |-> 0]}
    ELSE IF route = "advance" /\ Continued
    THEN {step.index : step \in OrdinaryAdvance \ {Overflow}}
    ELSE {}

\* the values an index selects make a divisor of the resolver 0
ZeroDivisor(index) ==
    \/ Options(RECORD_SIZE)[index[RECORD_SIZE] + 1] = 0
    \/ /\ Options(THROUGHPUT)[index[THROUGHPUT] + 1] > 0
       /\ Options(NUM_PRODUCERS)[index[NUM_PRODUCERS] + 1] = 0

\* C18 (resolver is total): on specifications whose candidates are
\* non-negative integers, every call that resolves an in-bounds index returns
\* parameters, also when num_producers or record_size_byte is 0.
C18_ResolverTotal ==
    ResolvedIndices # {} => ReturnedTest

\* the calls that do not return are exactly those with a zero divisor: they
\* raise ZeroDivisionError; a consumer group of size 0, and num_producers = 0
\* with unlimited throughput, return parameters
ResolverFailsOnZeroDivisor ==
    \A index \in ResolvedIndices :
        IF ZeroDivisor(index)
        THEN result = Raise("ZeroDivisionError")
        ELSE ReturnedTest /\ OutIndex = index

\* no producer: the unlimited first test is returned, the advance to 100 MB/s
\* fails
ZeroDivisorReached ==
    /\ route = "advance" /\ ResolvedIndices # {}
    /\ result = Raise("ZeroDivisionError")
    /\ Options(NUM_PRODUCERS) = <<0>>
    /\ Options(RECORD_SIZE) = <<1024>>
    /\ Options(THROUGHPUT) = <<0, 100>>

\* the unsanitized names of the event of the last name-building call
RawTopicName ==
    <<"t", "e", "s", "t", "-">> \o event.test_id \o <<"-", "s", "e", "r", "i", "e", "s", "-">>
      \o event.throughput_series_id \o <<"-">> \o event.settings
RawDepletionName ==
    <<"t", "e", "s", "t", "-">> \o event.test_id \o <<"-", "s", "e", "r", "i", "e", "s", "-">>
      \o event.throughput_series_id \o <<"-", "d", "e", "p", "l">>

\* the characters of the raw names that are outside [A-Za-z0-9._-]
Disallowed == {" ", "/", "+"}

\* clean is raw with every disallowed character replaced by '-'
Replaced(raw, clean) ==
    /\ Len(clean) = Len(raw)
    /\ \A i \in 1..Len(raw) :
          /\ clean[i] = IF raw[i] \in Disallowed THEN "-" ELSE raw[i]
          /\ clean[i] \notin Disallowed

\* C19 (name sanitization): topic_name and depletion_topic_name are the
\* unsanitized names with every character outside [A-Za-z0-9._-] replaced by
\* '-', length and allowed characters kept; they hold allowed characters only,
\* and sanitizing them again returns them unchanged.
C19_NameSanitization ==
    route = "names" =>
        /\ Replaced(RawTopicName, result.value.topic_name)
        /\ Replaced(RawDepletionName, result.value.depletion_topic_name)
        /\ sanitize(result.value.topic_name) = result.value.topic_name
        /\ sanitize(result.value.depletion_topic_name) = result.value.depletion_topic_name

\* test id "a/" and series id " ", settings with a '+'
C19_Witness ==
    /\ route = "names"
    /\ event.test_id = <<"a", "/">> /\ event.throughput_series_id = <<" ">>
    /\ \E i \in 1..Len(event.settings) : event.settings[i] = "+"
    /\ result.value.depletion_topic_name =
          <<"t", "e", "s", "t", "-", "a", "-", "-", "s", "e", "r", "i", "e", "s", "-", "-",
            "-", "d", "e", "p", "l">>

\* the parameters given to the handler in the last call
Given == event.current_test.parameters

\* C20 (depletion transform values): called on an event with current_test and
\* approximate_timeout_hours = h, the depletion handler returns parameters
\* with duration_sec = h * 3600, records_per_sec = -1, num_records_producer =
\* 2147483647, num_records_consumer = 0 and num_jobs = num_producers.
C20_DepletionValues ==
    (route = "depletion" /\ event.current_test.present) =>
        /\ ReturnedTest
        /\ Resolved.duration_sec =
              TestSpec.depletion_configuration.approximate_timeout_hours * 3600
        /\ Resolved.records_per_sec = -1
        /\ Resolved.num_records_producer = 2147483647
        /\ Resolved.num_records_consumer = 0
        /\ Resolved.num_jobs = Given.num_producers

\* 2 hours give 7200 seconds; the test had consumers and a finite rate
C20_Witness ==
    /\ route = "depletion" /\ ReturnedTest
    /\ TestSpec.depletion_configuration.approximate_timeout_hours = 2
    /\ Resolved.duration_sec = 7200
    /\ Given.duration_sec = 10
    /\ Given.num_jobs > Given.num_producers
    /\ Given.records_per_sec > 1
    /\ Resolved.num_jobs = Given.num_producers

----------------------------------------------------------------------------
(* C21..C30                                                                 *)

\* the fields the depletion handler overwrites
Overwritten == {"duration_sec", "records_per_sec", "num_records_producer",
                "num_records_consumer", "num_jobs", "depletion_topic_name"}

\* C21 (depletion frame): the depletion handler returns the specification and
\* the index of its input and the same test_id and throughput_series_id; of
\* the parameters only duration_sec, records_per_sec, num_records_producer,
\* num_records_consumer, num_jobs and depletion_topic_name may differ from the
\* input, every other field keeps its value.
C21_DepletionFrame ==
    (route = "depletion" /\ event.current_test.present) =>
        /\ ReturnedTest
        /\ result.value.test_specification = TestSpec
        /\ OutIndex = InIndex
        /\ DOMAIN Resolved = DOMAIN Given
        /\ \A field \in DOMAIN Given \ Overwritten : Resolved[field] = Given[field]

\* a throttled test beyond the first index, with consumers
C21_Witness ==
    /\ route = "depletion" /\ ReturnedTest
    /\ InIndex[THROUGHPUT] > 0 /\ InIndex[CONSUMER_GROUPS] > 0
    /\ OutIndex = InIndex
    /\ Given.producer_throughput > 0
    /\ Resolved.producer_throughput = Given.producer_throughput
    /\ Resolved.topic_name = Given.topic_name
    /\ Resolved.duration_sec # Given.duration_sec
    /\ Resolved.num_jobs # Given.num_jobs

\* a text without a character outside [A-Za-z0-9._-]
Clean(text) == \A i \in 1..Len(text) : text[i] \notin Disallowed

\* C22 (depletion resource name): the depletion_topic_name the depletion
\* handler returns holds only characters of [A-Za-z0-9._-] and equals the
\* depletion_topic_name the resolver builds for the same identifiers.
C22_DepletionNameSanitized ==
    route = "depletion_names" =>
        /\ Clean(result.value.depletion_topic_name)
        /\ result.value.depletion_topic_name =
              topic_names(event.test_id, event.throughput_series_id,
                          event.settings).depletion_topic_name

\* on identifiers without a disallowed character the two names agree
DepletionNameOfCleanIds ==
    (route = "depletion_names"
       /\ Clean(event.test_id) /\ Clean(event.throughput_series_id)) =>
        result.value.depletion_topic_name =
            topic_names(event.test_id, event.throughput_series_id,
                        event.settings).depletion_topic_name

\* the fields of the parameters that hold an identifier or a name built from
\* the identifiers
IdentifierFields == {"test_id", "throughput_series_id", "topic_name",
                     "depletion_topic_name"}

\* two results of a call agree on everything but the identifiers
SameButIdentifiers(a, b) ==
    /\ a.raised = b.raised
    /\ a.raised = "none" =>
          /\ a.value.test_specification = b.value.test_specification
          /\ a.value.current_test.present = b.value.current_test.present
          /\ a.value.current_test.present =>
                /\ a.value.current_test.index = b.value.current_test.index
                /\ \A field \in DOMAIN a.value.current_test.parameters \ IdentifierFields :
                      a.value.current_test.parameters[field] =
                          b.value.current_test.parameters[field]

ProducedIndices ==
    IF route = "first" THEN {[key \in DOMAIN TestSpec.parameters |-> 0]}
    ELSE IF route = "skip"
    THEN {step.index : step \in skip_remaining_throughput(InIndex, event) \ {Overflow}}
    ELSE {step.index : step \in OrdinaryAdvance \ {Overflow}}

\* C24 (resolved values follow the index): in every non-terminal payload the
\* decision function returns, the index is the one the counter or the skip
\* rule produced, each scalar parameter is the candidate of its axis at the
\* position of the index, and test_specification is the input specification.
C24_ValuesFollowIndex ==
    (ReturnedTest /\ route \in {"first", "advance", "skip"}) =>
        /\ OutIndex \in ProducedIndices
        /\ result.value.test_specification = TestSpec
        /\ Resolved.cluster_throughput_mb_per_sec = Chosen(THROUGHPUT)
        /\ Resolved.num_producers = Chosen(NUM_PRODUCERS)
        /\ Resolved.record_size_byte = Chosen(RECORD_SIZE)
        /\ Resolved.num_partitions = Chosen(NUM_PARTITIONS)
        /\ Resolved.replication_factor = Chosen(REPLICATION)
        /\ Resolved.duration_sec = Chosen(DURATION)

\* third throughput candidate and second num_producers candidate
C24_Witness ==
    /\ ReturnedTest /\ route = "advance"
    /\ OutIndex[THROUGHPUT] = 2 /\ OutIndex[NUM_PRODUCERS] = 1
    /\ Resolved.cluster_throughput_mb_per_sec = 0
    /\ Resolved.num_producers = 3

\* the throughput axis is declared before the consumer_groups axis
Position(key) == CHOOSE pos \in 1..Len(Keys) : Keys[pos] = key
ThroughputBeforeGroups == Position(THROUGHPUT) < Position(CONSUMER_GROUPS)

\* C25 (sweep termination under arbitrary feedback): whatever the axis order
\* and the feedback, a sweep that is continued call after call eventually
\* returns the terminal payload.
C25_SweepTerminates == <>ReturnedTerminal

\* with the throughput axis declared before consumer_groups every sweep ends
TerminatesWhenThroughputFirst == ThroughputBeforeGroups => <>ReturnedTerminal

\* C26 (monotone progress with skips): when the throughput axis is declared
\* before consumer_groups, every call on a payload with current_test that
\* returns a test (ordinary advance, carry or skip-ahead) returns an index of
\* the grid whose mixed-radix rank is strictly greater than the rank of the
\* index it was given, so no index is returned twice in a sweep and the rank
\* stays below the number of combinations.
C26_MonotoneProgress ==
    (Continued /\ ReturnedTest /\ ThroughputBeforeGroups) =>
        /\ InBounds(OutIndex)
        /\ Rank(OutIndex) > Rank(InIndex)
        /\ Rank(OutIndex) < Combinations

\* a skip-ahead that abandons a ramp in progress, throughput declared first
C26_Witness ==
    /\ route = "skip" /\ ReturnedTest /\ ThroughputBeforeGroups
    /\ InIndex[THROUGHPUT] > 0
    /\ Rank(OutIndex) > Rank(InIndex) + 1

\* the tests the decision function can return on an event
TestsReturned(ev) ==
    {outcome.ret.value.current_test :
        outcome \in {o \in increment_index_and_update_parameters(ev) :
                        o.ret.raised = "none"}}

\* the event of the last call with another skip condition and other feedback
Varied(cond, producer_result) ==
    [event EXCEPT !.test_specification.skip_remaining_throughput = cond,
                  !.producer_result = producer_result]

\* C27 (first call): a call on a payload without current_test takes the
\* first-test branch and returns a test, never the terminal payload and never
\* a failure; the index is 0 on every axis of the specification, test_id and
\* throughput_series_id lie in the range of the draw, and the tests that can
\* be returned are the same whatever the skip condition and the feedback.
C27_FirstCall ==
    (route # "start" /\ ~event.current_test.present) =>
        /\ route = "first"
        /\ ReturnedTest
        /\ OutIndex = [key \in DOMAIN TestSpec.parameters |-> 0]
        /\ result.value.current_test.parameters.test_id \in randint
        /\ OutSeries \in randint
        /\ \A cond \in SkipConditions, producer_result \in ProducerResults :
              TestsReturned(Varied(cond, producer_result)) = TestsReturned(event)

\* a first call on a payload that carries feedback which would satisfy the
\* skip condition of the specification on a continued call
C27_Witness ==
    /\ route = "first" /\ ReturnedTest
    /\ TestSpec.skip_remaining_throughput.kind # "absent"
    /\ event.producer_result.kind # "absent"
    /\ result.value.current_test.parameters.test_id = MaxId

\* C28 (the terminal payload is not absorbing): the call that follows a
\* returned terminal payload is made on that payload, takes the first-test
\* branch and returns a test with index 0 on every axis and identifiers from
\* the draw; it does not return the terminal payload again.
C28_TerminalNotAbsorbing ==
    [][ReturnedTerminal =>
          /\ event'.test_specification = result.value.test_specification
          /\ ~event'.current_test.present
          /\ route' = "first"
          /\ ReturnedTest'
          /\ OutIndex' = [key \in DOMAIN TestSpec.parameters |-> 0]
          /\ result'.value.current_test.parameters.test_id \in randint
          /\ OutSeries' \in randint]_vars

\* a first-test call after an even number of calls: the sweep before it took
\* an odd number of calls and ended with the terminal payload
C28_Witness ==
    /\ "calls" \in recording /\ returned = 0
    /\ route = "first" /\ ReturnedTest

\* the series ids the call on the event of the last call can return: the
\* whole range when the id is drawn, the id of the event when it is kept
SeriesReturned ==
    {test.parameters.throughput_series_id : test \in TestsReturned(event)}
DrawsSeries == SeriesReturned = randint

\* the call is one of the three that start a series
StartsSeries ==
    \/ route = "first"
    \/ route = "skip"
    \/ route = "advance" /\ InIndex[THROUGHPUT] + 1 >= Len(Options(THROUGHPUT))

\* C29 (every series starts at the bottom of the throughput ramp): with the
\* throughput axis declared first, the calls that draw a new
\* throughput_series_id are the first call, the carry out of the throughput
\* axis and the skip-ahead, and each returns throughput position 0; every
\* other call that returns a test keeps the series id and returns the index
\* it was given with the throughput position incremented by one.
C29_SeriesStartAtBottom ==
    (route # "start" /\ ReturnedTest /\ Keys[1] = THROUGHPUT) =>
        /\ DrawsSeries <=> StartsSeries
        /\ DrawsSeries => OutIndex[THROUGHPUT] = 0
        /\ ~DrawsSeries =>
              /\ SeriesReturned = {InSeries}
              /\ OutIndex = [InIndex EXCEPT ![THROUGHPUT] = @ + 1]

\* a carry out of the last throughput candidate whose draw returned the id
\* of the series that ended
C29_Witness ==
    /\ Continued /\ ReturnedTest /\ Keys[1] = THROUGHPUT
    /\ route = "advance" /\ InIndex[THROUGHPUT] = MaxOptions
    /\ OutIndex[THROUGHPUT] = 0 /\ OutSeries = InSeries

\* C30 (the depletion transform is idempotent): the depletion handler called
\* on a payload it returned, with any feedback attached and the same
\* specification, returns that payload again.
C30_DepletionIdempotent ==
    (route = "depletion" /\ ReturnedTest) =>
        \A producer_result \in ProducerResults :
            update_parameters_for_depletion(
                WithFeedback(result.value, producer_result)) = result

\* the handler was called on its own output, made from a throttled test with
\* consumers, and returned it unchanged
C30_Witness ==
    /\ route = "depletion" /\ ReturnedTest
    /\ Given.records_per_sec = -1 /\ Given.duration_sec = 7200
    /\ Given.num_records_consumer = 0 /\ Given.num_jobs = Given.num_producers
    /\ Given.producer_throughput > 0 /\ Given.num_consumer_groups > 0
    /\ result.value.current_test = event.current_test

====
